---- MODULE Spec2Model ----
(***************************************************************************)
(* Model of load_data_fast (ingestion_db.py): the per-file CSV ingestion   *)
(* loop with a generic first-chunk insert (DataFrame.to_sql on the engine) *)
(* and a COPY-based bulk path on a raw connection.                         *)
(*                                                                         *)
(* File names are sequences of one-character strings, so that endswith,    *)
(* os.path.splitext, str.lower and the interpolation of the table name     *)
(* into the COPY statement are computed, not assumed.                      *)
(***************************************************************************)
EXTENDS Integers, Sequences, FiniteSets, TLC

\* ------------------------------------------------------------------ bounds
MaxRows == 3      \* data rows of a file: 0..MaxRows
MaxChunk == 2     \* chunksize argument: 1..MaxChunk
MaxRuns == 2      \* invocations of load_data_fast against the same database

\* ------------------------------------------------------- names as strings
csv_suffix == <<".", "c", "s", "v">>

UpperChars == <<"A", "B", "C", "E", "S", "V", "X">>
LowerChars == <<"a", "b", "c", "e", "s", "v", "x">>

\* str.lower on one character
LowerChar(c) ==
    IF \E i \in 1..Len(UpperChars) : UpperChars[i] = c
    THEN LowerChars[CHOOSE i \in 1..Len(UpperChars) : UpperChars[i] = c]
    ELSE c

\* str.lower
lower(s) == [i \in 1..Len(s) |-> LowerChar(s[i])]

\* str.endswith
endswith(s, suffix) ==
    /\ Len(s) >= Len(suffix)
    /\ SubSeq(s, Len(s) - Len(suffix) + 1, Len(s)) = suffix

\* str.rfind(".") + 1 (0 when there is no dot)
RFindDot(s) ==
    IF \E i \in 1..Len(s) : s[i] = "."
    THEN CHOOSE i \in 1..Len(s) : s[i] = "." /\ \A j \in (i+1)..Len(s) : s[j] # "."
    ELSE 0

\* os.path.splitext(p)[0] for a bare file name: the extension starts at the
\* last dot, unless only dots precede it (leading dots are not an extension)
splitext_root(p) ==
    LET dot == RFindDot(p) IN
    IF dot > 0 /\ \E i \in 1..(dot - 1) : p[i] # "."
    THEN SubSeq(p, 1, dot - 1)
    ELSE p

\* line 47: table_name = os.path.splitext(file)[0].lower()
TableName(file) == lower(splitext_root(file))

\* line 37: the test of the list comprehension over os.listdir
IsCsv(f) == endswith(f, csv_suffix)

\* line 37: csv_files, in listing order
RECURSIVE FilterCsv(_)
FilterCsv(entries) ==
    IF entries = <<>> THEN <<>>
    ELSE (IF IsCsv(Head(entries)) THEN <<Head(entries)>> ELSE <<>>)
         \o FilterCsv(Tail(entries))

\* ------------------------------------------------------------ directories
F_s    == <<"s", ".", "c", "s", "v">>
F_E    == <<"E", ".", "c", "s", "v">>
F_ab   == <<"a", ".", "b", ".", "c", "s", "v">>
F_dot  == <<".", "c", "s", "v">>
F_txt  == <<"n", ".", "t", "x", "t">>
F_XCSV == <<"x", ".", "C", "S", "V">>

\* the directory listings os.listdir may return
Listings ==
    { <<F_s, F_txt, F_E>>,
      <<F_ab, F_XCSV>>,
      <<F_dot>>,
      <<F_txt>> }

\* ------------------------------------------------------------ SQL targets
DefaultSchema == <<"p", "u", "b", "l", "i", "c">>
NoRelation == [schema |-> <<>>, table |-> <<>>]

\* line 67: first_chunk.to_sql(table_name, engine, ...): the name is passed as
\* a value and quoted by the library, so the table is named exactly table_name
ToSqlTarget(name) == [schema |-> DefaultSchema, table |-> name]

\* line 84: f"COPY {table_name} (...) FROM STDIN WITH CSV": the name is
\* interpolated unquoted, so the server reads a dot as the schema separator;
\* an empty part, or more than one dot, is rejected (NoRelation)
CopyTarget(name) ==
    LET dots == {i \in 1..Len(name) : name[i] = "."} IN
    IF name = <<>> THEN NoRelation
    ELSE IF dots = {} THEN [schema |-> DefaultSchema, table |-> name]
    ELSE IF Cardinality(dots) = 1
         THEN LET d == CHOOSE i \in dots : TRUE IN
              IF d = 1 \/ d = Len(name) THEN NoRelation
              ELSE [schema |-> SubSeq(name, 1, d - 1),
                    table  |-> SubSeq(name, d + 1, Len(name))]
    ELSE NoRelation

\* the tables this program can create: one per .csv name of a listing
AllEntries == UNION { {l[i] : i \in 1..Len(l)} : l \in Listings }
Relations == { ToSqlTarget(TableName(f)) : f \in {g \in AllEntries : IsCsv(g)} }

Entries(l) == {l[i] : i \in 1..Len(l)}

\* a data row: <<index of the file in csv_files, row number>>; <<0, 0>> is a
\* row that was in a table before the first run
OldRow == <<0, 0>>
RowsOf(fi, lo, hi) == [k \in 1..(hi - lo + 1) |-> <<fi, lo + k - 1>>]

Max(a, b) == IF a >= b THEN a ELSE b
Min(a, b) == IF a <= b THEN a ELSE b

NoTable == [exists |-> FALSE, rows |-> <<>>]

\* ------------------------------------------------------------------ state
VARIABLES
    listing,      \* os.listdir(data_path)
    nlines,       \* lines of each entry: 0 = zero-byte, 1 = header only, 1+N
    chunksize,    \* the chunksize argument
    db0,          \* the database before the first run
    db,           \* committed, visible contents of each table
    run,          \* which invocation of load_data_fast this is
    pc,           \* position in load_data_fast
    csv_files,    \* line 37
    idx,          \* position of the for loop in csv_files (1-based)
    table_name,   \* line 47
    total_rows,   \* line 53
    pbar_n,       \* tqdm counter
    pos,          \* data rows the reader has consumed
    chunk_no,     \* number of chunks the reader has yielded
    chunk,        \* the chunk in hand
    raw_conn,     \* line 61 / 75: "None" or "conn"
    pending,      \* rows copied in the raw connection's open transaction
    propagating,  \* an exception is propagating out of the except block
    outcome,      \* per-file state of the current file
    failedAt,     \* where the current file's processing raised, or "none"
    trace,        \* calls issued for the current file, in order
    tblBefore,    \* the current file's table when the file was started
    dirty         \* an exception was raised in this or an earlier run

inputs == <<listing, nlines, chunksize, db0>>
ctl    == <<run, pc, csv_files, idx, table_name, total_rows, pbar_n>>
rd     == <<pos, chunk_no, chunk>>
cx     == <<raw_conn, pending, propagating>>
hist   == <<outcome, failedAt, trace, tblBefore, dirty>>
vars   == <<inputs, db, ctl, rd, cx, hist>>

\* data rows of a file with n lines (line 56 parses the first line as header)
DataRows(f) == Max(nlines[f] - 1, 0)

file == csv_files[idx]
N == DataRows(file)

Ev(op, k, rel) == [op |-> op, chunk |-> k, rel |-> rel]

Init ==
    /\ listing \in Listings
    /\ nlines \in [Entries(listing) -> 0..(MaxRows + 1)]
    /\ \A f \in Entries(listing) : ~IsCsv(f) => nlines[f] = 1
    /\ chunksize \in 1..MaxChunk
    /\ db0 \in [Relations -> {NoTable, [exists |-> TRUE, rows |-> <<>>],
                              [exists |-> TRUE, rows |-> <<OldRow>>]}]
    /\ \A r \in Relations :
          (~\E f \in Entries(listing) : IsCsv(f) /\ ToSqlTarget(TableName(f)) = r)
              => db0[r] = NoTable
    /\ db = db0
    /\ run = 1
    /\ pc = "idle"
    /\ csv_files = <<>>
    /\ idx = 0
    /\ table_name = <<>>
    /\ total_rows = 0
    /\ pbar_n = 0
    /\ pos = 0
    /\ chunk_no = 0
    /\ chunk = <<>>
    /\ raw_conn = "None"
    /\ pending = <<>>
    /\ propagating = FALSE
    /\ outcome = "none"
    /\ failedAt = "none"
    /\ trace = <<>>
    /\ tblBefore = NoTable
    /\ dirty = FALSE

\* -------------------------------------------------------------- the run
\* lines 34-42: list the directory, keep the .csv entries, return if none
Discover ==
    /\ pc = "idle"
    /\ csv_files' = FilterCsv(listing)
    /\ idx' = 1
    /\ pc' = IF FilterCsv(listing) = <<>> THEN "returned" ELSE "loop"
    /\ UNCHANGED <<inputs, db, run, table_name, total_rows, pbar_n, rd, cx, hist>>

\* lines 44-48: the for loop takes the next file and derives its table name
StartFile ==
    /\ pc = "loop"
    /\ idx <= Len(csv_files)
    /\ table_name' = TableName(file)
    /\ pc' = "precount"
    /\ total_rows' = 0
    /\ pbar_n' = 0
    /\ pos' = 0
    /\ chunk_no' = 0
    /\ chunk' = <<>>
    /\ raw_conn' = "None"
    /\ pending' = <<>>
    /\ propagating' = FALSE
    /\ outcome' = "Scanning"
    /\ failedAt' = "none"
    /\ trace' = <<>>
    /\ tblBefore' = db[ToSqlTarget(TableName(file))]
    /\ UNCHANGED <<inputs, db, run, csv_files, idx, dirty>>

\* lines 104-107: the loop is exhausted; the elapsed-time summary is printed
Summary ==
    /\ pc = "loop"
    /\ idx > Len(csv_files)
    /\ pc' = "done"
    /\ UNCHANGED <<inputs, db, run, csv_files, idx, table_name, total_rows,
                   pbar_n, rd, cx, hist>>

\* an exception that no handler of load_data_fast catches ends the call
Uncaught(where) ==
    /\ pc' = "aborted"
    /\ failedAt' = where
    /\ dirty' = TRUE

\* an exception raised inside the try block of lines 62-90
Raise(where) ==
    /\ pc' = "except"
    /\ failedAt' = where
    /\ dirty' = TRUE

\* line 53: count the lines of the file, minus the header
PreCount ==
    /\ pc = "precount"
    /\ total_rows' = nlines[file] - 1
    /\ pc' = "read_csv"
    /\ UNCHANGED <<inputs, db, run, csv_files, idx, table_name, pbar_n, rd, cx, hist>>

\* line 53 raises (open or decoding fails): outside the try block
PreCountRaises ==
    /\ pc = "precount"
    /\ Uncaught("precount")
    /\ UNCHANGED <<inputs, db, run, csv_files, idx, table_name, total_rows,
                   pbar_n, rd, cx, outcome, trace, tblBefore>>

\* lines 56-61: pd.read_csv parses the header and returns the chunked reader;
\* the progress bar is created and raw_conn set to None
ReadCsv ==
    /\ pc = "read_csv"
    /\ nlines[file] >= 1
    /\ pos' = 0
    /\ chunk_no' = 0
    /\ chunk' = <<>>
    /\ pbar_n' = 0
    /\ raw_conn' = "None"
    /\ pc' = "first_chunk"
    /\ UNCHANGED <<inputs, db, run, csv_files, idx, table_name, total_rows,
                   pending, propagating, hist>>

\* line 56 on a zero-byte file: there is no header line, pd.read_csv raises
\* EmptyDataError; outside the try block
ReadCsvEmptyData ==
    /\ pc = "read_csv"
    /\ nlines[file] = 0
    /\ Uncaught("read_csv_empty")
    /\ UNCHANGED <<inputs, db, run, csv_files, idx, table_name, total_rows,
                   pbar_n, rd, cx, outcome, trace, tblBefore>>

\* line 56 raises on a file with a header (I/O or decoding error); outside
\* the try block
ReadCsvRaises ==
    /\ pc = "read_csv"
    /\ nlines[file] >= 1
    /\ Uncaught("read_csv")
    /\ UNCHANGED <<inputs, db, run, csv_files, idx, table_name, total_rows,
                   pbar_n, rd, cx, outcome, trace, tblBefore>>

\* the rows of the chunk the reader yields next
NextRows == RowsOf(idx, pos + 1, Min(pos + chunksize, N))

\* line 64: next(reader) yields the first chunk of a file with data rows
FirstChunk ==
    /\ pc = "first_chunk"
    /\ N >= 1
    /\ chunk' = NextRows
    /\ pos' = Min(pos + chunksize, N)
    /\ chunk_no' = 1
    /\ outcome' = "FirstChunkInsert"
    /\ pc' = "to_sql"
    /\ UNCHANGED <<inputs, db, run, csv_files, idx, table_name, total_rows,
                   pbar_n, cx, failedAt, trace, tblBefore, dirty>>

\* line 64 on a header-only file, when the reader yields an empty first chunk
\* (the header's columns, no rows) instead of raising StopIteration; which of
\* the two a header-only file gives is the reader's choice, so both are kept
FirstChunkEmpty ==
    /\ pc = "first_chunk"
    /\ N = 0
    /\ chunk' = <<>>
    /\ chunk_no' = 1
    /\ outcome' = "FirstChunkInsert"
    /\ pc' = "to_sql"
    /\ UNCHANGED <<inputs, db, run, csv_files, idx, table_name, total_rows,
                   pbar_n, pos, cx, failedAt, trace, tblBefore, dirty>>

\* line 64 raises StopIteration: the reader has no chunk at all
FirstChunkStop ==
    /\ pc = "first_chunk"
    /\ N = 0
    /\ pc' = "except_stop"
    /\ UNCHANGED <<inputs, db, run, csv_files, idx, table_name, total_rows,
                   pbar_n, rd, cx, hist>>

\* line 64 raises another exception (a malformed row, an I/O error)
FirstChunkRaises ==
    /\ pc = "first_chunk"
    /\ Raise("next")
    /\ UNCHANGED <<inputs, db, run, csv_files, idx, table_name, total_rows,
                   pbar_n, rd, cx, outcome, trace, tblBefore>>

\* ------------------------------------------------------- the write paths
\* line 67: DataFrame.to_sql(..., if_exists='append') in its own transaction
\* on the engine: creates the table if absent, appends the rows, commits
AppendRowsMutReplace(d, rel, rows) ==
    [d EXCEPT ![rel] = [exists |-> TRUE, rows |-> rows]]
AppendRowsMutCreateOnly(d, rel, rows) ==
    [d EXCEPT ![rel] = [exists |-> TRUE, rows |-> d[rel].rows]]
AppendRows(d, rel, rows) ==
    [d EXCEPT ![rel] = [exists |-> TRUE, rows |-> d[rel].rows \o rows]]

\* lines 67-70: the first chunk is inserted through the engine
ToSql ==
    /\ pc = "to_sql"
    /\ db' = AppendRows(db, ToSqlTarget(table_name), chunk)
    /\ trace' = Append(trace, Ev("to_sql", chunk_no, ToSqlTarget(table_name)))
    /\ pbar_n' = pbar_n + Len(chunk)
    /\ pc' = "raw_connection"
    /\ UNCHANGED <<inputs, run, csv_files, idx, table_name, total_rows, rd, cx,
                   outcome, failedAt, tblBefore, dirty>>

\* line 67 raises: no row is inserted; whether the CREATE TABLE survives
\* depends on the library version (one transaction, or DDL committed first)
ToSqlRaises ==
    /\ pc = "to_sql"
    /\ \E created \in BOOLEAN :
          db' = IF created
                THEN [db EXCEPT ![ToSqlTarget(table_name)].exists = TRUE]
                ELSE db
    /\ trace' = Append(trace, Ev("to_sql", chunk_no, ToSqlTarget(table_name)))
    /\ Raise("to_sql")
    /\ UNCHANGED <<inputs, run, csv_files, idx, table_name, total_rows, pbar_n,
                   rd, cx, outcome, tblBefore>>

\* line 75: raw_conn = engine.raw_connection()
RawConnection ==
    /\ pc = "raw_connection"
    /\ raw_conn' = "conn"
    /\ trace' = Append(trace, Ev("open", 0, NoRelation))
    /\ pc' = "cursor"
    /\ UNCHANGED <<inputs, db, run, csv_files, idx, table_name, total_rows,
                   pbar_n, rd, pending, propagating, outcome, failedAt,
                   tblBefore, dirty>>

\* line 75 raises: raw_conn is still None
RawConnectionRaises ==
    /\ pc = "raw_connection"
    /\ Raise("raw_connection")
    /\ UNCHANGED <<inputs, db, run, csv_files, idx, table_name, total_rows,
                   pbar_n, rd, cx, outcome, trace, tblBefore>>

\* line 77: with raw_conn.cursor() as cursor
Cursor ==
    /\ pc = "cursor"
    /\ outcome' = "BulkStreaming"
    /\ pc' = "copy_loop"
    /\ UNCHANGED <<inputs, db, run, csv_files, idx, table_name, total_rows,
                   pbar_n, rd, cx, failedAt, trace, tblBefore, dirty>>

\* line 77 raises
CursorRaises ==
    /\ pc = "cursor"
    /\ Raise("cursor")
    /\ UNCHANGED <<inputs, db, run, csv_files, idx, table_name, total_rows,
                   pbar_n, rd, cx, outcome, trace, tblBefore>>

\* line 78: `for chunk in reader` ends when every data row has been read
ReaderExhaustedMutEarly == TRUE
ReaderExhausted == pos >= N

\* line 78: the for loop pulls the next chunk from the reader
NextChunk ==
    /\ pc = "copy_loop"
    /\ pos < N
    /\ chunk' = NextRows
    /\ pos' = Min(pos + chunksize, N)
    /\ chunk_no' = chunk_no + 1
    /\ pc' = "copy"
    /\ UNCHANGED <<inputs, db, run, csv_files, idx, table_name, total_rows,
                   pbar_n, cx, hist>>

\* line 78 raises while parsing a later chunk
NextChunkRaises ==
    /\ pc = "copy_loop"
    /\ pos < N
    /\ Raise("next")
    /\ UNCHANGED <<inputs, db, run, csv_files, idx, table_name, total_rows,
                   pbar_n, rd, cx, outcome, trace, tblBefore>>

\* line 78: the reader is exhausted; the loop and the cursor's with block end
CopyLoopEnd ==
    /\ pc = "copy_loop"
    /\ ReaderExhausted
    /\ pc' = "commit"
    /\ UNCHANGED <<inputs, db, run, csv_files, idx, table_name, total_rows,
                   pbar_n, rd, cx, hist>>

\* the relation the COPY statement of line 84 names exists on the server
CopyRelationExists ==
    /\ CopyTarget(table_name) \in DOMAIN db
    /\ db[CopyTarget(table_name)].exists

\* lines 79-87: the chunk is serialised and streamed by cursor.copy_expert
\* inside the raw connection's transaction
CopyExpert ==
    /\ pc = "copy"
    /\ CopyRelationExists
    /\ pending' = pending \o chunk
    /\ trace' = Append(trace, Ev("copy", chunk_no, CopyTarget(table_name)))
    /\ pbar_n' = pbar_n + Len(chunk)
    /\ pc' = "copy_loop"
    /\ UNCHANGED <<inputs, db, run, csv_files, idx, table_name, total_rows, rd,
                   raw_conn, propagating, outcome, failedAt, tblBefore, dirty>>

\* line 85 raises (always when the named relation does not exist): the
\* statement's rows are discarded and the transaction is left aborted
CopyExpertRaises ==
    /\ pc = "copy"
    /\ trace' = Append(trace, Ev("copy", chunk_no, CopyTarget(table_name)))
    /\ Raise("copy")
    /\ UNCHANGED <<inputs, db, run, csv_files, idx, table_name, total_rows,
                   pbar_n, rd, cx, outcome, tblBefore>>

\* the database after the raw connection's transaction commits
CommittedMutLost(d) == d
Committed(d) ==
    IF pending = <<>> THEN d
    ELSE [d EXCEPT ![CopyTarget(table_name)].rows = @ \o pending]

\* lines 89-90: raw_conn.commit(), then the info log line
Commit ==
    /\ pc = "commit"
    /\ db' = Committed(db)
    /\ pending' = <<>>
    /\ trace' = Append(trace, Ev("commit", 0, NoRelation))
    /\ outcome' = "Committed"
    /\ pc' = "finally"
    /\ UNCHANGED <<inputs, run, csv_files, idx, table_name, total_rows, pbar_n,
                   rd, raw_conn, propagating, failedAt, tblBefore, dirty>>

\* line 89 raises: the transaction is not committed
CommitRaises ==
    /\ pc = "commit"
    /\ trace' = Append(trace, Ev("commit", 0, NoRelation))
    /\ Raise("commit")
    /\ UNCHANGED <<inputs, db, run, csv_files, idx, table_name, total_rows,
                   pbar_n, rd, cx, outcome, tblBefore>>

\* ------------------------------------------------- handlers and clean-up
\* lines 97 and 100: `if raw_conn:`
HasConnMutNever == FALSE
HasConnMutUnlessRaised == raw_conn # "None" /\ ~propagating
HasConn == raw_conn # "None"

\* lines 92-94: StopIteration from the first next(reader): warn and continue
\* (the finally clause still runs before the loop goes on)
ExceptStopIteration ==
    /\ pc = "except_stop"
    /\ trace' = Append(trace, Ev("log_warning", 0, NoRelation))
    /\ outcome' = "Skipped"
    /\ pc' = "finally"
    /\ UNCHANGED <<inputs, db, run, csv_files, idx, table_name, total_rows,
                   pbar_n, rd, cx, failedAt, tblBefore, dirty>>

\* lines 95-97 with raw_conn None: the error is logged, nothing is rolled back
ExceptNoConn ==
    /\ pc = "except"
    /\ ~HasConn
    /\ trace' = Append(trace, Ev("log_error", 0, NoRelation))
    /\ outcome' = "Failed"
    /\ pc' = "finally"
    /\ UNCHANGED <<inputs, db, run, csv_files, idx, table_name, total_rows,
                   pbar_n, rd, cx, failedAt, tblBefore, dirty>>

\* lines 95-98: the error is logged and raw_conn.rollback() discards the
\* transaction's rows
ExceptRollback ==
    /\ pc = "except"
    /\ HasConn
    /\ trace' = trace \o <<Ev("log_error", 0, NoRelation),
                           Ev("rollback", 0, NoRelation)>>
    /\ pending' = <<>>
    /\ outcome' = "Failed"
    /\ pc' = "finally"
    /\ UNCHANGED <<inputs, db, run, csv_files, idx, table_name, total_rows,
                   pbar_n, rd, raw_conn, propagating, failedAt, tblBefore, dirty>>

\* line 98 raises (the connection is lost): the new exception leaves the
\* except block and propagates once the finally clause has run
ExceptRollbackRaises ==
    /\ pc = "except"
    /\ HasConn
    /\ trace' = trace \o <<Ev("log_error", 0, NoRelation),
                           Ev("rollback", 0, NoRelation)>>
    /\ propagating' = TRUE
    /\ outcome' = "Failed"
    /\ pc' = "finally"
    /\ UNCHANGED <<inputs, db, run, csv_files, idx, table_name, total_rows,
                   pbar_n, rd, raw_conn, pending, failedAt, tblBefore, dirty>>

\* where control goes after the finally clause
AfterFinally ==
    /\ pc' = IF propagating THEN "aborted" ELSE "loop"
    /\ idx' = IF propagating THEN idx ELSE idx + 1

\* lines 99-102 with a connection: raw_conn.close(); an uncommitted
\* transaction ends with the connection
FinallyClose ==
    /\ pc = "finally"
    /\ HasConn
    /\ trace' = Append(trace, Ev("close", 0, NoRelation))
    /\ pending' = <<>>
    /\ AfterFinally
    /\ UNCHANGED <<inputs, db, run, csv_files, table_name, total_rows, pbar_n,
                   rd, raw_conn, propagating, outcome, failedAt, tblBefore, dirty>>

\* lines 99-100 with raw_conn None: nothing to close
FinallyNoConn ==
    /\ pc = "finally"
    /\ ~HasConn
    /\ AfterFinally
    /\ UNCHANGED <<inputs, db, run, csv_files, table_name, total_rows, pbar_n,
                   rd, cx, hist>>

\* lines 110-112: the script is run again against the same directory and
\* database
Rerun ==
    /\ pc \in {"done", "aborted", "returned"}
    /\ run < MaxRuns
    /\ run' = run + 1
    /\ pc' = "idle"
    /\ csv_files' = <<>>
    /\ idx' = 0
    /\ table_name' = <<>>
    /\ total_rows' = 0
    /\ pbar_n' = 0
    /\ pos' = 0
    /\ chunk_no' = 0
    /\ chunk' = <<>>
    /\ raw_conn' = "None"
    /\ pending' = <<>>
    /\ propagating' = FALSE
    /\ outcome' = "none"
    /\ failedAt' = "none"
    /\ trace' = <<>>
    /\ tblBefore' = NoTable
    /\ UNCHANGED <<inputs, db, dirty>>

Next ==
    \/ Discover
    \/ StartFile
    \/ Summary
    \/ PreCount
    \/ PreCountRaises
    \/ ReadCsv
    \/ ReadCsvEmptyData
    \/ ReadCsvRaises
    \/ FirstChunk
    \/ FirstChunkEmpty
    \/ FirstChunkStop
    \/ FirstChunkRaises
    \/ ToSql
    \/ ToSqlRaises
    \/ RawConnection
    \/ RawConnectionRaises
    \/ Cursor
    \/ CursorRaises
    \/ NextChunk
    \/ NextChunkRaises
    \/ CopyLoopEnd
    \/ CopyExpert
    \/ CopyExpertRaises
    \/ Commit
    \/ CommitRaises
    \/ ExceptStopIteration
    \/ ExceptNoConn
    \/ ExceptRollback
    \/ ExceptRollbackRaises
    \/ FinallyClose
    \/ FinallyNoConn
    \/ Rerun

Spec == Init /\ [][Next]_vars

\* ======================================================== properties
\* index in csv_files of the file the per-file history is about: the loop
\* variable, except between the end of a file and the start of the next
CurIdx == IF pc \in {"loop", "done"} THEN idx - 1 ELSE idx
InFile == csv_files # <<>> /\ CurIdx \in 1..Len(csv_files) /\ outcome # "none"
CurFile == csv_files[CurIdx]
CurRows == DataRows(CurFile)

\* the events of the current file's trace with a given operation
At(op) == {i \in 1..Len(trace) : trace[i].op = op}
Count(op) == Cardinality(At(op))

\* the processing of the current file is over
FileOver == InFile /\ pc \in {"loop", "done", "aborted"}

\* the table the current file is meant to be loaded into
Target == ToSqlTarget(TableName(CurFile))
FirstChunkRows == RowsOf(CurIdx, 1, Min(chunksize, CurRows))

\* csv_files holds a file after the current one
HasLaterFile == CurIdx < Len(csv_files)

\* the points of the try block at which an exception can be raised
TryPoints == {"next", "to_sql", "raw_connection", "cursor", "copy", "commit"}

\* a write whose statement the server accepts as naming a relation
IsWrite(e) == e.op \in {"to_sql", "copy"} /\ e.rel # NoRelation

\* C1: a failure of a file at any point (pre-count, opening the reader,
\* first-chunk insert, opening the raw connection, a bulk copy, commit) is
\* contained: the run is never ended by it, so the later files of the list
\* are processed and the summary is reached.
C1_FailureContained ==
    (InFile /\ failedAt # "none" /\ HasLaterFile) => pc # "aborted"

\* C2: when a bulk copy of the current file has raised and the file is over,
\* a rollback was issued on its raw connection, the table holds none of the
\* rows sent by COPY in this attempt, and the run goes on to the next file.
C2_CopyFailureRolledBackAndRunGoesOn ==
    (FileOver /\ failedAt = "copy" /\ HasLaterFile) =>
        /\ Count("rollback") = 1
        /\ db[Target].rows = tblBefore.rows \o FirstChunkRows
        /\ pc # "aborted"

\* the chunk numbers of the events with a given operation, in trace order
RECURSIVE ChunkNos(_, _)
ChunkNos(t, op) ==
    IF t = <<>> THEN <<>>
    ELSE (IF Head(t).op = op THEN <<Head(t).chunk>> ELSE <<>>)
         \o ChunkNos(Tail(t), op)

CeilDiv(n, c) == (n + c - 1) \div c

C4_ClosedExactlyOnce ==
    /\ Count("open") <= 1
    /\ Count("close") <= Count("open")
    /\ (Count("open") = 1) = (raw_conn = "conn")
    /\ (pc \in {"loop", "done", "aborted", "returned"}) =>
           Count("close") = Count("open")

\* C4 witness: the rollback itself raised, and the connection was still closed
\* once before the exception left the function
C4_Witness ==
    /\ pc = "aborted"
    /\ propagating
    /\ Count("rollback") = 1
    /\ Count("open") = 1
    /\ Count("close") = 1

\* C5: a file without data rows (zero-byte, or header only), once it is over
\* and short of an unrelated I/O error, was skipped: a warning was logged,
\* no insert or copy was issued, no raw connection was opened, its table is as
\* it was, no error was raised and the run goes on.
C5_NoDataFileSkipped ==
    (FileOver /\ HasLaterFile /\ nlines[CurFile] <= 1
              /\ failedAt \in {"none", "read_csv_empty"}) =>
        /\ outcome = "Skipped"
        /\ Count("log_warning") = 1
        /\ Count("to_sql") = 0 /\ Count("copy") = 0 /\ Count("open") = 0
        /\ db[Target] = tblBefore
        /\ failedAt = "none"
        /\ pc # "aborted"

RECURSIVE Repeat(_, _)
Repeat(rows, k) == IF k = 0 THEN <<>> ELSE rows \o Repeat(rows, k - 1)

IsPrefix(a, b) == Len(a) <= Len(b) /\ SubSeq(b, 1, Len(a)) = a

\* no step drops, truncates or rewrites a table
AppendOnly ==
    [][\A r \in Relations :
          /\ db[r].exists => db'[r].exists
          /\ IsPrefix(db[r].rows, db'[r].rows)]_vars

C8_WritesTargetStemTable ==
    InFile => \A i \in 1..Len(trace) : IsWrite(trace[i]) => trace[i].rel = Target

\* the position in the trace of the only event with an operation (0 if none)
Where(op) == IF At(op) = {} THEN 0 ELSE CHOOSE i \in At(op) : TRUE

\* C9: within one file the insert is issued at most once, for chunk 1, and
\* has returned before the raw connection is opened; every copy is issued on
\* the open raw connection, for chunks 2, 3, ... in that order, before the
\* commit and before the close; the commit is issued at most once, after the
\* reader is exhausted and every later chunk was copied, and nothing is
\* copied after it.
C9_WriteStepsOrdered ==
    /\ Count("to_sql") <= 1 /\ Count("open") <= 1 /\ Count("commit") <= 1
    /\ ChunkNos(trace, "to_sql") \in {<<>>, <<1>>}
    /\ Count("open") = 1 =>
          /\ Count("to_sql") = 1
          /\ Where("to_sql") < Where("open")
          /\ pc # "to_sql"
    /\ \A i \in At("copy") :
          /\ trace[i].chunk >= 2
          /\ Count("open") = 1 /\ Where("open") < i
          /\ \A j \in At("commit") \cup At("close") \cup At("rollback") : i < j
          /\ \A j \in At("to_sql") : j < i
    /\ \E n \in 0..chunk_no : ChunkNos(trace, "copy") = [k \in 1..n |-> k + 1]
    /\ (InFile /\ Count("commit") = 1) =>
          /\ pos = CurRows
          /\ chunk_no = CeilDiv(Max(CurRows, 1), chunksize)
          /\ (outcome = "Committed" =>
                ChunkNos(trace, "copy") = [k \in 1..(chunk_no - 1) |-> k + 1])

\* C9 witness: a three-chunk file committed: insert of chunk 1, open, copies
\* of chunks 2 and 3, commit
C9_Witness ==
    /\ InFile /\ outcome = "Committed"
    /\ ChunkNos(trace, "copy") = <<2, 3>>
    /\ Where("to_sql") < Where("open")
    /\ \A i \in At("copy") : i < Where("commit")

\* C10: after a file whose first-chunk insert succeeded and whose bulk copy
\* or commit then raised (rollback issued), in every state until the next
\* file starts, its table exists and holds what it held before the file
\* followed by exactly the first chunk's rows: the first chunk is kept, no
\* later chunk is.
C10_FirstChunkSurvivesRollback ==
    (InFile /\ failedAt \in {"copy", "commit"} /\ Count("rollback") = 1) =>
        /\ db[Target].exists
        /\ db[Target].rows = tblBefore.rows \o FirstChunkRows
        /\ CurRows > chunksize =>
              Len(db[Target].rows) < Len(tblBefore.rows) + CurRows

\* C10 witness: the commit of a three-row file loaded in chunks of one raised
\* after two copies; the file is over and only row 1 was added
C10_Witness ==
    /\ FileOver /\ failedAt = "commit" /\ Count("rollback") = 1
    /\ CurRows = 3 /\ chunksize = 1 /\ Count("copy") = 2
    /\ db[Target].rows = tblBefore.rows \o <<(<<CurIdx, 1>>)>>

====
